---- MODULE Spec2Model ----
(***************************************************************************)
(* A model of affiliate.py: read the authors file and the affiliations     *)
(* file, verify that every affiliation an author names has a full name,    *)
(* number the affiliations by first appearance, render the author block    *)
(* and the affiliation footer in HTML and LaTeX, and write the outputs.    *)
(*                                                                         *)
(* Text is a sequence of one-character strings, so that strip, split and   *)
(* join are computed as Python computes them.  A line of a file is its     *)
(* text without the terminating newline (strip and rstrip remove it).      *)
(***************************************************************************)
EXTENDS Integers, Sequences, FiniteSets, TLC

VARIABLES
    authorsFile,          \* lines of the file named by args.authors
    affiliationsFile,     \* lines of the file named by args.affiliations
    out_latex,            \* args.out_latex
    pc,                   \* position of main
    error,                \* the exception that ended the run, or NoError
    authors,              \* OrderedDict: sequence of <<name, shorthands>>
    affiliations,         \* dict: sequence of <<shorthand, fullname>>
    affiliations_number,  \* dict: sequence of <<shorthand, number>>
    curr_num,
    affiliations_ordered,
    author_html,
    author_latex,
    affiliations_html,
    affiliations_latex,
    files                 \* the two output files: whether opened, and content

vars == <<authorsFile, affiliationsFile, out_latex, pc, error, authors,
          affiliations, affiliations_number, curr_num, affiliations_ordered,
          author_html, author_latex, affiliations_html, affiliations_latex,
          files>>

-----------------------------------------------------------------------------
(* Bounds of the model *)

\* total number of shorthand references in the authors file
MaxRefs == 3

\* number of lines of the affiliations file
MaxAffLines == 2

\* total number of lines of the two input files when lines may be malformed
MaxLoadLines == 2

-----------------------------------------------------------------------------
(* Characters and text *)

TAB == "\t"

SPACE == " "

COMMA == ","

\* the characters str.strip() and str.rstrip() remove that occur in a line
Whitespace == {SPACE, TAB}

RECURSIVE LStrip(_)
LStrip(s) ==
    IF s # <<>> /\ Head(s) \in Whitespace THEN LStrip(Tail(s)) ELSE s

RECURSIVE RStrip(_)
RStrip(s) ==
    IF s # <<>> /\ s[Len(s)] \in Whitespace
    THEN RStrip(SubSeq(s, 1, Len(s) - 1))
    ELSE s

\* rstrip in place of strip
Strip_Right(s) == RStrip(s)

Strip(s) == LStrip(RStrip(s))

\* str.split(sep) with a one-character separator: one more field than
\* there are separators, empty fields kept
RECURSIVE Split(_, _)
Split(s, sep) ==
    IF \A i \in 1..Len(s) : s[i] # sep
    THEN <<s>>
    ELSE LET i == CHOOSE j \in 1..Len(s) :
                      s[j] = sep /\ \A k \in 1..(j - 1) : s[k] # sep
         IN  <<SubSeq(s, 1, i - 1)>> \o Split(SubSeq(s, i + 1, Len(s)), sep)

\* sep.join(list)
RECURSIVE Join(_, _)
Join(list, sep) ==
    IF list = <<>> THEN <<>>
    ELSE IF Len(list) = 1 THEN list[1]
    ELSE list[1] \o sep \o Join(Tail(list), sep)

Digits == <<"0", "1", "2", "3", "4", "5", "6", "7", "8", "9">>

\* str(n) of an integer n >= 0
RECURSIVE Str(_)
Str(n) ==
    IF n < 10 THEN <<Digits[n + 1]>>
    ELSE Str(n \div 10) \o <<Digits[(n % 10) + 1]>>

\* sorted(numbers)
RECURSIVE Insert(_, _)
Insert(n, s) ==
    IF s = <<>> THEN <<n>>
    ELSE IF n < Head(s) THEN <<n>> \o s
    ELSE <<Head(s)>> \o Insert(n, Tail(s))

\* the numbers left in the order of the author's list
Sorted_Unsorted(s) == s

RECURSIVE Sorted(_)
Sorted(s) ==
    IF s = <<>> THEN <<>>
    ELSE Insert(s[Len(s)], Sorted(SubSeq(s, 1, Len(s) - 1)))

-----------------------------------------------------------------------------
(* Dictionaries that keep insertion order (OrderedDict, dict) *)

DictHas(d, k) == \E i \in 1..Len(d) : d[i][1] = k

DictGet(d, k) == d[CHOOSE i \in 1..Len(d) : d[i][1] = k][2]

\* d.setdefault(k, v): an old key keeps its value
DictSet_KeepFirst(d, k, v) ==
    IF DictHas(d, k) THEN d ELSE Append(d, <<k, v>>)

\* an old key is moved to the end
DictSet_MoveToEnd(d, k, v) ==
    Append(SelectSeq(d, LAMBDA e : e[1] # k), <<k, v>>)

\* d[k] = v: a new key goes last, an old key keeps its place
DictSet(d, k, v) ==
    IF DictHas(d, k)
    THEN [i \in 1..Len(d) |-> IF d[i][1] = k THEN <<k, v>> ELSE d[i]]
    ELSE Append(d, <<k, v>>)

DictKeys(d) == [i \in 1..Len(d) |-> d[i][1]]

-----------------------------------------------------------------------------
(* Exceptions *)

NoError == [kind |-> "none"]

\* open() of a file that cannot be read or written
FileError(path) == [kind |-> "OSError", path |-> path]

\* unpacking the fields of a line into two names when there are not two,
\* raised in read_authors or in read_affiliations
UnpackError(file) == [kind |-> "ValueError", file |-> file]

\* raise Exception("Author %s has affiliation %s but ...")
UnknownAffiliation(author, affiliation) ==
    [kind |-> "Exception", author |-> author, affiliation |-> affiliation]

\* affiliations_number[x] of a shorthand without a number
KeyError(key) == [kind |-> "KeyError", key |-> key]

-----------------------------------------------------------------------------
(* read_authors and read_affiliations *)

\* author, affiliations = line.strip().split('\t') succeeds
AuthorLineUnpacks(line) == Len(Split(Strip(line), TAB)) = 2

\* the body of the loop of read_authors
RECURSIVE read_authors_loop(_, _)
read_authors_loop(lines, acc) ==
    IF lines = <<>> THEN acc
    ELSE LET fields == Split(Strip(Head(lines)), TAB)
         IN  read_authors_loop(Tail(lines),
                 DictSet(acc, fields[1], Split(fields[2], COMMA)))

\* shorthand, fullname = line.rstrip().split('\t') succeeds
AffiliationLineUnpacks(line) == Len(Split(RStrip(line), TAB)) = 2

\* the body of the loop of read_affiliations
RECURSIVE read_affiliations_loop(_, _)
read_affiliations_loop(lines, acc) ==
    IF lines = <<>> THEN acc
    ELSE LET fields == Split(RStrip(Head(lines)), TAB)
         IN  read_affiliations_loop(Tail(lines),
                 DictSet(acc, fields[1], fields[2]))

-----------------------------------------------------------------------------
(* main: verification and numbering *)

\* the references <<author, affiliation>> in the order the two nested
\* loops over authors and authors[author] visit them
RECURSIVE References(_)
References(auths) ==
    IF auths = <<>> THEN <<>>
    ELSE [i \in 1..Len(auths[1][2]) |-> <<auths[1][1], auths[1][2][i]>>]
         \o References(Tail(auths))

\* the verification loop raising on the last unknown reference
RECURSIVE FirstUnknown_Last(_, _)
FirstUnknown_Last(refs, affs) ==
    IF refs = <<>> THEN <<>>
    ELSE IF FirstUnknown_Last(Tail(refs), affs) # <<>>
         THEN FirstUnknown_Last(Tail(refs), affs)
    ELSE IF ~DictHas(affs, Head(refs)[2]) THEN Head(refs)
    ELSE <<>>

\* the first reference the verification loop raises on, <<>> if none
RECURSIVE FirstUnknown(_, _)
FirstUnknown(refs, affs) ==
    IF refs = <<>> THEN <<>>
    ELSE IF ~DictHas(affs, Head(refs)[2]) THEN Head(refs)
    ELSE FirstUnknown(Tail(refs), affs)

\* the numbering loop without its test: a shorthand met again is renumbered
RECURSIVE NumberLoop_Renumber(_, _, _)
NumberLoop_Renumber(refs, num, n) ==
    IF refs = <<>> THEN <<num, n>>
    ELSE NumberLoop_Renumber(Tail(refs), DictSet(num, Head(refs)[2], n), n + 1)

\* the numbering loop: <<affiliations_number, curr_num>> after the
\* references refs, from the numbering num and the counter n
RECURSIVE NumberLoop(_, _, _)
NumberLoop(refs, num, n) ==
    IF refs = <<>> THEN <<num, n>>
    ELSE IF ~DictHas(num, Head(refs)[2])
         THEN NumberLoop(Tail(refs), DictSet(num, Head(refs)[2], n), n + 1)
         ELSE NumberLoop(Tail(refs), num, n)

\* sorted(keys, key=lambda x: num[x]), every key having a number
RECURSIVE InsertByNumber(_, _, _)
InsertByNumber(k, s, num) ==
    IF s = <<>> THEN <<k>>
    ELSE IF DictGet(num, k) < DictGet(num, Head(s)) THEN <<k>> \o s
    ELSE <<Head(s)>> \o InsertByNumber(k, Tail(s), num)

\* the keys left in the order of the affiliation table
SortedByNumber_Unsorted(keys, num) == keys

RECURSIVE SortedByNumber(_, _)
SortedByNumber(keys, num) ==
    IF keys = <<>> THEN <<>>
    ELSE InsertByNumber(keys[Len(keys)],
             SortedByNumber(SubSeq(keys, 1, Len(keys) - 1), num), num)

\* the first key the key function of sorted() fails on, <<>> if none
RECURSIVE FirstUnnumbered(_, _)
FirstUnnumbered(keys, num) ==
    IF keys = <<>> THEN <<>>
    ELSE IF ~DictHas(num, Head(keys)) THEN <<Head(keys)>>
    ELSE FirstUnnumbered(Tail(keys), num)

-----------------------------------------------------------------------------
(* main: rendering *)

SupOpen == <<"<", "s", "u", "p", ">">>

SupClose == <<"<", "/", "s", "u", "p", ">">>

Br == <<"<", "b", "r", ">">>

Mbox == <<"\\", "m", "b", "o", "x", "{">>

LatexSupOpen == <<"$", "^", "{">>

LatexSupClose == <<"}", "$">>

NL == <<"\n">>

Percent(n) == [i \in 1..n |-> "%"]

AuthorsBanner ==
    <<"%", "%", " ", "L", "I", "S", "T", " ", "O", "F", " ",
      "A", "U", "T", "H", "O", "R", "S", " ", "%", "%">>

AffiliationsBanner ==
    <<"%", "%", " ", "L", "I", "S", "T", " ", "O", "F", " ",
      "A", "F", "F", "I", "L", "I", "A", "T", "I", "O", "N", "S", " ",
      "%", "%">>

\* numbers = [affiliations_number[x] for x in authors[author]]
NumbersOf(shorthands, num) ==
    [i \in 1..Len(shorthands) |-> DictGet(num, shorthands[i])]

\* numbers_str = ','.join([str(x) for x in sorted(numbers)])
NumbersStr(numbers) ==
    LET s == Sorted(numbers)
    IN  Join([i \in 1..Len(s) |-> Str(s[i])], <<COMMA>>)

\* author_mbox
AuthorMbox(author) ==
    LET author_split == Split(author, SPACE)
        n == Len(author_split)
    IN  Mbox \o Join(SubSeq(author_split, 1, n - 1), <<SPACE>>)
             \o <<"}", " ">> \o Mbox \o author_split[n] \o <<"}">>

\* author_html after the authors auths, the first of them at index i
RECURSIVE AuthorHtml(_, _, _)
AuthorHtml(auths, num, i) ==
    IF auths = <<>> THEN <<>>
    ELSE (IF i > 0 THEN <<",", " ">> ELSE <<>>)
         \o auths[1][1] \o SupOpen
         \o NumbersStr(NumbersOf(auths[1][2], num)) \o SupClose
         \o AuthorHtml(Tail(auths), num, i + 1)

\* author_latex after the authors auths, before the final newline
RECURSIVE AuthorLatex(_, _, _)
AuthorLatex(auths, num, i) ==
    IF auths = <<>> THEN <<>>
    ELSE (IF i > 0 THEN <<",", "\n">> ELSE <<>>)
         \o AuthorMbox(auths[1][1]) \o LatexSupOpen
         \o NumbersStr(NumbersOf(auths[1][2], num)) \o LatexSupClose
         \o AuthorLatex(Tail(auths), num, i + 1)

RECURSIVE AffiliationsHtml(_, _, _, _)
AffiliationsHtml(ordered, num, affs, i) ==
    IF ordered = <<>> THEN <<>>
    ELSE (IF i > 0 THEN <<" ">> ELSE <<>>)
         \o SupOpen \o Str(DictGet(num, Head(ordered))) \o SupClose
         \o DictGet(affs, Head(ordered)) \o <<".">>
         \o AffiliationsHtml(Tail(ordered), num, affs, i + 1)

RECURSIVE AffiliationsLatex(_, _, _)
AffiliationsLatex(ordered, num, affs) ==
    IF ordered = <<>> THEN <<>>
    ELSE LatexSupOpen \o Str(DictGet(num, Head(ordered))) \o LatexSupClose
         \o DictGet(affs, Head(ordered)) \o <<".", "\n">>
         \o AffiliationsLatex(Tail(ordered), num, affs)

\* what main writes to args.out_html
HtmlContent(a_html, f_html) == a_html \o Br \o Br \o f_html

\* what main writes to args.out_latex
LatexContent(a_latex, f_latex) ==
    Percent(21) \o NL \o AuthorsBanner \o NL \o Percent(21) \o NL
    \o a_latex
    \o Percent(21) \o NL \o NL \o NL
    \o Percent(26) \o NL \o AffiliationsBanner \o NL \o Percent(26) \o NL
    \o f_latex
    \o Percent(26) \o NL

-----------------------------------------------------------------------------
(* Inputs *)

Names == {<<"A">>, <<"B", " ", "C">>}

Shorthands == {<<"x">>, <<"y">>}

Fullnames == {<<"M">>, <<"S">>}

\* a well-formed line of the authors file
AuthorLine(name, shorthands) == name \o <<TAB>> \o Join(shorthands, <<COMMA>>)

\* a well-formed line of the affiliations file
AffiliationLine(shorthand, fullname) == shorthand \o <<TAB>> \o fullname

\* the sequences over S of length lo..hi
SeqsOf(S, lo, hi) == UNION {[1..n -> S] : n \in lo..hi}

\* the authors files of well-formed lines with n references in all
RECURSIVE AuthorFilesWith(_)
AuthorFilesWith(n) ==
    IF n = 0 THEN {<<>>}
    ELSE UNION {
           {<<AuthorLine(name, l)>> \o rest :
                name \in Names, l \in SeqsOf(Shorthands, k, k),
                rest \in AuthorFilesWith(n - k)} : k \in 1..n}

AuthorFiles == UNION {AuthorFilesWith(n) : n \in 0..MaxRefs}

\* one shorthand with either full name, the other with one of them
AffiliationLines ==
    {AffiliationLine(<<"x">>, fn) : fn \in Fullnames}
        \cup {AffiliationLine(<<"y">>, <<"S">>)}

AffiliationFiles == SeqsOf(AffiliationLines, 0, MaxAffLines)

\* lines of an authors file, well-formed or not
LoadAuthorLines ==
    {pre \o <<"A">> \o sep \o field \o post :
        pre \in {<<>>, <<TAB>>},
        sep \in {<<TAB>>, <<>>, <<TAB, TAB>>},
        field \in {<<>>, <<"x">>, <<"y">>},
        post \in {<<>>, <<SPACE>>}}

\* lines of an affiliations file, well-formed or not
LoadAffiliationLines ==
    {pre \o <<"x">> \o sep \o field \o post :
        pre \in {<<>>, <<TAB>>},
        sep \in {<<TAB>>, <<>>, <<TAB, TAB>>},
        field \in {<<>>, <<"M">>},
        post \in {<<>>, <<SPACE>>}}

\* args.out_latex: None without --out-latex, else the string given
OutLatexArgs ==
    {[given |-> FALSE, path |-> ""],
     [given |-> TRUE, path |-> ""],
     [given |-> TRUE, path |-> "out.tex"]}

\* if args.out_latex is not None
Truthy_Given(arg) == arg.given

\* if args.out_latex: neither None nor the empty string
Truthy(arg) == arg.given /\ arg.path # ""

NoFile == [opened |-> FALSE, content |-> <<>>]

-----------------------------------------------------------------------------
(* The run *)

InitRun ==
    /\ pc = "read_authors"
    /\ error = NoError
    /\ authors = <<>>
    /\ affiliations = <<>>
    /\ affiliations_number = <<>>
    /\ curr_num = 0
    /\ affiliations_ordered = <<>>
    /\ author_html = <<>>
    /\ author_latex = <<>>
    /\ affiliations_html = <<>>
    /\ affiliations_latex = <<>>
    /\ files = [out_html |-> NoFile, out_latex |-> NoFile]

Init ==
    /\ authorsFile \in AuthorFiles
    /\ affiliationsFile \in AffiliationFiles
    /\ out_latex \in OutLatexArgs
    /\ InitRun

InitLoad ==
    /\ \E n \in 0..MaxLoadLines :
          \E m \in 0..(MaxLoadLines - n) :
             /\ authorsFile \in [1..n -> LoadAuthorLines]
             /\ affiliationsFile \in [1..m -> LoadAffiliationLines]
    /\ out_latex \in OutLatexArgs
    /\ InitRun

Fail(e) ==
    /\ pc' = "failed"
    /\ error' = e

\* authors = read_authors(args.authors)
ReadAuthors ==
    /\ pc = "read_authors"
    /\ \/ /\ \A i \in 1..Len(authorsFile) : AuthorLineUnpacks(authorsFile[i])
          /\ authors' = read_authors_loop(authorsFile, <<>>)
          /\ pc' = "read_affiliations"
          /\ UNCHANGED error
       \/ /\ \E i \in 1..Len(authorsFile) : ~AuthorLineUnpacks(authorsFile[i])
          /\ Fail(UnpackError("authors"))
          /\ UNCHANGED authors
       \/ /\ Fail(FileError("authors"))
          /\ UNCHANGED authors
    /\ UNCHANGED <<authorsFile, affiliationsFile, out_latex, affiliations,
                   affiliations_number, curr_num, affiliations_ordered,
                   author_html, author_latex, affiliations_html,
                   affiliations_latex, files>>

\* affiliations = read_affiliations(args.affiliations)
ReadAffiliations ==
    /\ pc = "read_affiliations"
    /\ \/ /\ \A i \in 1..Len(affiliationsFile) :
                 AffiliationLineUnpacks(affiliationsFile[i])
          /\ affiliations' = read_affiliations_loop(affiliationsFile, <<>>)
          /\ pc' = "verify"
          /\ UNCHANGED error
       \/ /\ \E i \in 1..Len(affiliationsFile) :
                 ~AffiliationLineUnpacks(affiliationsFile[i])
          /\ Fail(UnpackError("affiliations"))
          /\ UNCHANGED affiliations
       \/ /\ Fail(FileError("affiliations"))
          /\ UNCHANGED affiliations
    /\ UNCHANGED <<authorsFile, affiliationsFile, out_latex, authors,
                   affiliations_number, curr_num, affiliations_ordered,
                   author_html, author_latex, affiliations_html,
                   affiliations_latex, files>>

\* Verify that each author's affiliation has a name
Verify ==
    /\ pc = "verify"
    /\ LET bad == FirstUnknown(References(authors), affiliations)
       IN  IF bad = <<>>
           THEN pc' = "number" /\ UNCHANGED error
           ELSE Fail(UnknownAffiliation(bad[1], bad[2]))
    /\ UNCHANGED <<authorsFile, affiliationsFile, out_latex, authors,
                   affiliations, affiliations_number, curr_num,
                   affiliations_ordered, author_html, author_latex,
                   affiliations_html, affiliations_latex, files>>

\* Order affiliations according to the author order: the numbering
AssignNumbers ==
    /\ pc = "number"
    /\ LET r == NumberLoop(References(authors), <<>>, 1)
       IN  /\ affiliations_number' = r[1]
           /\ curr_num' = r[2]
    /\ pc' = "order"
    /\ UNCHANGED <<authorsFile, affiliationsFile, out_latex, error, authors,
                   affiliations, affiliations_ordered, author_html,
                   author_latex, affiliations_html, affiliations_latex,
                   files>>

\* affiliations_ordered = sorted(list(affiliations.keys()), key=...)
OrderAffiliations ==
    /\ pc = "order"
    /\ LET missing == FirstUnnumbered(DictKeys(affiliations),
                                      affiliations_number)
       IN  IF missing = <<>>
           THEN /\ affiliations_ordered' =
                       SortedByNumber(DictKeys(affiliations),
                                      affiliations_number)
                /\ pc' = "render_authors"
                /\ UNCHANGED error
           ELSE /\ Fail(KeyError(missing[1]))
                /\ UNCHANGED affiliations_ordered
    /\ UNCHANGED <<authorsFile, affiliationsFile, out_latex, authors,
                   affiliations, affiliations_number, curr_num, author_html,
                   author_latex, affiliations_html, affiliations_latex,
                   files>>

\* Generate HTML and LaTeX of authors with their affiliations numbered
RenderAuthors ==
    /\ pc = "render_authors"
    /\ author_html' = AuthorHtml(authors, affiliations_number, 0)
    /\ author_latex' = AuthorLatex(authors, affiliations_number, 0) \o NL
    /\ pc' = "render_affiliations"
    /\ UNCHANGED <<authorsFile, affiliationsFile, out_latex, error, authors,
                   affiliations, affiliations_number, curr_num,
                   affiliations_ordered, affiliations_html,
                   affiliations_latex, files>>

\* Generate HTML and LaTeX of affiliations with their full names
RenderAffiliations ==
    /\ pc = "render_affiliations"
    /\ affiliations_html' =
           AffiliationsHtml(affiliations_ordered, affiliations_number,
                            affiliations, 0)
    /\ affiliations_latex' =
           AffiliationsLatex(affiliations_ordered, affiliations_number,
                             affiliations)
    /\ pc' = "write_html"
    /\ UNCHANGED <<authorsFile, affiliationsFile, out_latex, error, authors,
                   affiliations, affiliations_number, curr_num,
                   affiliations_ordered, author_html, author_latex, files>>

\* Write HTML
WriteHtml ==
    /\ pc = "write_html"
    /\ \/ /\ files' = [files EXCEPT !.out_html =
                 [opened |-> TRUE,
                  content |-> HtmlContent(author_html, affiliations_html)]]
          /\ pc' = "write_latex"
          /\ UNCHANGED error
       \/ /\ Fail(FileError("out_html"))
          /\ UNCHANGED files
    /\ UNCHANGED <<authorsFile, affiliationsFile, out_latex, authors,
                   affiliations, affiliations_number, curr_num,
                   affiliations_ordered, author_html, author_latex,
                   affiliations_html, affiliations_latex>>

\* Write LaTeX if desired
WriteLatex ==
    /\ pc = "write_latex"
    /\ \/ /\ Truthy(out_latex)
          /\ files' = [files EXCEPT !.out_latex =
                 [opened |-> TRUE,
                  content |-> LatexContent(author_latex, affiliations_latex)]]
          /\ pc' = "done"
          /\ UNCHANGED error
       \/ /\ Truthy(out_latex)
          /\ Fail(FileError("out_latex"))
          /\ UNCHANGED files
       \/ /\ ~Truthy(out_latex)
          /\ pc' = "done"
          /\ UNCHANGED <<error, files>>
    /\ UNCHANGED <<authorsFile, affiliationsFile, out_latex, authors,
                   affiliations, affiliations_number, curr_num,
                   affiliations_ordered, author_html, author_latex,
                   affiliations_html, affiliations_latex>>

Next ==
    \/ ReadAuthors
    \/ ReadAffiliations
    \/ Verify
    \/ AssignNumbers
    \/ OrderAffiliations
    \/ RenderAuthors
    \/ RenderAffiliations
    \/ WriteHtml
    \/ WriteLatex

Spec == Init /\ [][Next]_vars

SpecLoad == InitLoad /\ [][Next]_vars

-----------------------------------------------------------------------------
(* Vocabulary of the properties *)

Range(s) == {s[i] : i \in 1..Len(s)}

\* both input files were read: main is at or past the verification
ReadsDone ==
    /\ pc \notin {"read_authors", "read_affiliations"}
    /\ error.kind # "ValueError"
    /\ ~(error.kind = "OSError" /\ error.path \in {"authors", "affiliations"})

\* the numbering loop has run
AfterNumbering ==
    /\ ReadsDone
    /\ pc # "verify"
    /\ pc # "number"
    /\ error.kind # "Exception"

\* the shorthands the authors reference, in scanning order
Referenced ==
    LET refs == References(authors)
    IN  [i \in 1..Len(refs) |-> refs[i][2]]

\* the place in the sequence r of the first occurrence of s
FirstOccurrence(r, s) == CHOOSE i \in 1..Len(r) :
    r[i] = s /\ \A j \in 1..(i - 1) : r[j] # s

\* the shorthands of r whose first occurrence precedes that of s
Preceding(r, s) ==
    {t \in Range(r) : FirstOccurrence(r, t) < FirstOccurrence(r, s)}

NoOutput == files.out_html = NoFile /\ files.out_latex = NoFile

\* C1: for inputs in which every referenced shorthand is a key of the
\* table, the numbering gives each referenced shorthand 1 + the number of
\* distinct shorthands first encountered before it (authors in order, each
\* author's list in order); it is a bijection between the referenced
\* shorthands and 1..K, the first shorthand encountered has number 1, and
\* nothing of the affiliations file enters it
C1_FirstOccurrenceNumbering ==
    AfterNumbering =>
        LET r == Referenced
            K == Cardinality(Range(r))
        IN  /\ Range(DictKeys(affiliations_number)) = Range(r)
            /\ Len(affiliations_number) = K
            /\ \A s \in Range(r) :
                  DictGet(affiliations_number, s)
                      = 1 + Cardinality(Preceding(r, s))
            /\ {affiliations_number[i][2] : i \in 1..K} = 1..K
            /\ curr_num = K + 1
            /\ r # <<>> => DictGet(affiliations_number, r[1]) = 1

\* two shorthands are numbered and one of them is referenced again after
\* the other was first seen
C1_Witness ==
    /\ pc = "order"
    /\ Len(affiliations_number) = 2
    /\ LET r == Referenced
       IN  \E i, j \in 1..Len(r) :
              i + 1 < j /\ r[i] = r[j] /\ r[i + 1] # r[i]

\* the unknown references, by position in scanning order
UnknownAt ==
    LET r == Referenced
    IN  {i \in 1..Len(r) : ~DictHas(affiliations, r[i])}

\* C2: if an author references a shorthand that is not a key of the
\* affiliation table, the run fails with an error naming the first such
\* author and shorthand (author order, then list order), and no output
\* file is opened or written
C2_UnknownAffiliationFails ==
    (ReadsDone /\ pc # "verify" /\ UnknownAt # {}) =>
        LET unknown == UnknownAt
            first == CHOOSE i \in unknown : \A j \in unknown : i <= j
            ref == References(authors)[first]
        IN  /\ pc = "failed"
            /\ error.kind = "Exception"
            /\ error.author = ref[1]
            /\ error.affiliation = ref[2]
            /\ NoOutput

\* the run failed on an unknown affiliation where two authors reference
\* two different unknown shorthands
C2_Witness ==
    /\ pc = "failed"
    /\ error.kind = "Exception"
    /\ LET refs == References(authors)
       IN  \E i, j \in UnknownAt :
              refs[i][1] # refs[j][1] /\ refs[i][2] # refs[j][2]

\* the keys of the affiliation table no author references
Unreferenced == Range(DictKeys(affiliations)) \ Range(Referenced)

\* C3: a valid input whose affiliation table has a shorthand no author
\* references still completes (no failure other than a file that cannot
\* be opened), the unreferenced shorthand having no number and no footer
\* entry
C3_UnreferencedExcluded ==
    (ReadsDone /\ UnknownAt = {} /\ Unreferenced # {}) =>
        /\ pc = "failed" => error.kind = "OSError"
        /\ pc = "done" =>
              Range(affiliations_ordered) = Range(Referenced)

\* C4: a run that ends in an error has written no output file
C4_NoPartialOutput ==
    pc = "failed" => NoOutput


AfterRenderAuthors ==
    /\ AfterNumbering
    /\ pc \notin {"order", "render_authors"}
    /\ error.kind # "KeyError"

AfterRenderAffiliations == AfterRenderAuthors /\ pc # "render_affiliations"

\* numbers in ascending order: in place k is the number v such that fewer
\* than k of the numbers are below v and at least k are v or below
Ascending(numbers) ==
    LET Below(v) == Cardinality({i \in 1..Len(numbers) : numbers[i] < v})
        UpTo(v) == Cardinality({i \in 1..Len(numbers) : numbers[i] <= v})
    IN  [k \in 1..Len(numbers) |->
            CHOOSE v \in Range(numbers) : Below(v) < k /\ k <= UpTo(v)]

\* the numbers of the shorthands, ascending, joined by commas
ExpectedMarker(shorthands) ==
    LET t == Ascending(NumbersOf(shorthands, affiliations_number))
    IN  Join([i \in 1..Len(t) |-> Str(t[i])], <<COMMA>>)

\* the length of what precedes the author block in the LaTeX file
LatexAuthorsOffset == Len(Percent(21) \o NL \o AuthorsBanner \o NL \o Percent(21) \o NL)

\* the author block of the HTML output with the markers marker
ExpectedAuthorHtml(marker) ==
    Join([i \in 1..Len(authors) |->
              authors[i][1] \o SupOpen \o marker[i] \o SupClose],
         <<",", " ">>)

\* the author block of the LaTeX output with the markers marker
ExpectedAuthorLatex(marker) ==
    Join([i \in 1..Len(authors) |->
              AuthorMbox(authors[i][1]) \o LatexSupOpen \o marker[i]
              \o LatexSupClose],
         <<",", "\n">>) \o NL

\* C5: in a successful run each author's marker, in both formats, is the
\* ascending sort of the numbers of the shorthands of the author's list,
\* one per listed shorthand, joined by commas; permuting the list under
\* the same numbering leaves the marker unchanged.  Stated of the blocks
\* when they have been built and of the files when the run is done.
C5_SortedMarkers ==
    LET marker == [i \in 1..Len(authors) |-> ExpectedMarker(authors[i][2])]
    IN  /\ pc = "render_affiliations" =>
              /\ author_html = ExpectedAuthorHtml(marker)
              /\ author_latex = ExpectedAuthorLatex(marker)
              /\ \A i \in 1..Len(authors) :
                    \A p \in Permutations(1..Len(authors[i][2])) :
                       NumbersStr(NumbersOf([j \in 1..Len(authors[i][2]) |->
                                                authors[i][2][p[j]]],
                                            affiliations_number))
                           = marker[i]
        /\ pc = "done" =>
              LET html == ExpectedAuthorHtml(marker)
                  latex == ExpectedAuthorLatex(marker)
              IN  /\ SubSeq(files.out_html.content, 1, Len(html)) = html
                  /\ files.out_latex.opened =>
                        SubSeq(files.out_latex.content, LatexAuthorsOffset + 1,
                               LatexAuthorsOffset + Len(latex)) = latex

\* both files are written and an author lists the shorthand numbered 2
\* before the shorthand numbered 1
C5_Witness ==
    /\ pc = "done"
    /\ files.out_latex.opened
    /\ \E i \in 1..Len(authors) :
          /\ Len(authors[i][2]) >= 2
          /\ DictGet(affiliations_number, authors[i][2][1]) = 2
          /\ DictGet(affiliations_number, authors[i][2][2]) = 1

\* the shorthand numbered n
ShorthandOf(n) ==
    CHOOSE s \in Range(DictKeys(affiliations_number)) :
        DictGet(affiliations_number, s) = n

\* the footer entries, the full names given by fullname
FooterHtml(fullname(_)) ==
    Join([n \in 1..Len(affiliations_number) |->
              SupOpen \o Str(n) \o SupClose \o fullname(ShorthandOf(n))
              \o <<".">>],
         <<" ">>)

FooterLatex(fullname(_)) ==
    Join([n \in 1..Len(affiliations_number) |->
              LatexSupOpen \o Str(n) \o LatexSupClose
              \o fullname(ShorthandOf(n)) \o <<".", "\n">>],
         <<>>)

\* the end of text, of the length of tail, starting back before the end
EndOf(text, tail, back) ==
    SubSeq(text, Len(text) - back - Len(tail) + 1, Len(text) - back)

\* C6: in a successful run the footer, in both formats, lists each
\* numbered affiliation once, by ascending number from 1 without gaps,
\* each entry the number marker, the full name of the table for that
\* shorthand and a period, however many authors cite the affiliation
C6_FooterByNumber ==
    AfterRenderAffiliations =>
        LET TableName(s) == DictGet(affiliations, s)
        IN  /\ Len(affiliations_ordered) = Len(affiliations_number)
            /\ \A n \in 1..Len(affiliations_ordered) :
                  DictGet(affiliations_number, affiliations_ordered[n]) = n
            /\ affiliations_html = FooterHtml(TableName)
            /\ affiliations_latex = FooterLatex(TableName)
            /\ files.out_html.opened =>
                  EndOf(files.out_html.content, affiliations_html, 0)
                      = affiliations_html
            /\ files.out_latex.opened =>
                  EndOf(files.out_latex.content, affiliations_latex,
                        Len(Percent(26) \o NL)) = affiliations_latex

\* two affiliations, the table listing them against their numbers, and
\* one of them cited by two authors
C6_Witness ==
    /\ pc = "done"
    /\ files.out_latex.opened
    /\ Len(affiliations_number) = 2
    /\ DictGet(affiliations_number, affiliations[1][1]) = 2
    /\ LET refs == References(authors)
       IN  \E i, j \in 1..Len(refs) :
              refs[i][1] # refs[j][1] /\ refs[i][2] = refs[j][2]

\* C7: a successful run has written the primary output (author block,
\* two line-break markers, footer), and has opened and written the
\* secondary output if and only if a secondary path was supplied; without
\* one the secondary file is untouched
C7_FilesWritten ==
    pc = "done" =>
        /\ files.out_html =
              [opened |-> TRUE,
               content |-> author_html \o Br \o Br \o affiliations_html]
        /\ files.out_latex.opened <=>
              (out_latex.given /\ out_latex.path # "")
        /\ files.out_latex.opened => files.out_latex.content # <<>>
        /\ ~files.out_latex.opened => files.out_latex = NoFile
        /\ DOMAIN files = {"out_html", "out_latex"}

\* a run with two authors and no usable secondary path has finished
C7_Witness ==
    /\ pc = "done"
    /\ out_latex.given
    /\ out_latex.path = ""
    /\ Len(authors) = 2
    /\ files.out_html.opened


\* the tab separators of line among its characters lo..hi
TabsIn(line, lo, hi) == Cardinality({i \in lo..hi : line[i] = TAB})

RawTabs(line) == TabsIn(line, 1, Len(line))

NonBlank(line) == {i \in 1..Len(line) : line[i] \notin Whitespace}

FirstNonBlank(line) ==
    CHOOSE i \in NonBlank(line) : \A j \in NonBlank(line) : i <= j

LastNonBlank(line) ==
    CHOOSE i \in NonBlank(line) : \A j \in NonBlank(line) : j <= i

\* the tab separators left when the whitespace at both ends is trimmed
TabsTrimmed(line) ==
    IF NonBlank(line) = {} THEN 0
    ELSE TabsIn(line, FirstNonBlank(line), LastNonBlank(line))

\* the tab separators left when the whitespace at the end is trimmed
TabsRightTrimmed(line) ==
    IF NonBlank(line) = {} THEN 0
    ELSE TabsIn(line, 1, LastNonBlank(line))

\* read_authors has read a file that could be opened
AuthorsAttempted ==
    pc # "read_authors" /\ error # FileError("authors")

\* read_affiliations has read a file that could be opened
AffiliationsAttempted ==
    /\ pc \notin {"read_authors", "read_affiliations"}
    /\ error # FileError("authors")
    /\ error # UnpackError("authors")
    /\ error # FileError("affiliations")

\* C8 as stated: loading a file fails if and only if some line of it does
\* not contain exactly one tab separator
C8_FailsIffNotOneTab ==
    /\ AuthorsAttempted =>
          (error = UnpackError("authors") <=>
              \E i \in 1..Len(authorsFile) : RawTabs(authorsFile[i]) # 1)
    /\ AffiliationsAttempted =>
          (error = UnpackError("affiliations") <=>
              \E i \in 1..Len(affiliationsFile) :
                  RawTabs(affiliationsFile[i]) # 1)

\* C8 amended: loading a file that can be opened fails, before anything is
\* numbered or written, if and only if some line of it, once trimmed of
\* whitespace (at both ends in the authors file, at the end in the
\* affiliations file), does not contain exactly one tab separator
C8_FailsIffNotOneTabTrimmed ==
    /\ AuthorsAttempted =>
          (error = UnpackError("authors") <=>
              \E i \in 1..Len(authorsFile) : TabsTrimmed(authorsFile[i]) # 1)
    /\ AffiliationsAttempted =>
          (error = UnpackError("affiliations") <=>
              \E i \in 1..Len(affiliationsFile) :
                  TabsRightTrimmed(affiliationsFile[i]) # 1)
    /\ error.kind = "ValueError" =>
          /\ pc = "failed"
          /\ affiliations_number = <<>>
          /\ NoOutput

\* read_authors has rejected a file each line of which has one tab
\* separator, the second field of a line being empty
C8_Witness ==
    /\ error = UnpackError("authors")
    /\ authorsFile # <<>>
    /\ \A i \in 1..Len(authorsFile) : RawTabs(authorsFile[i]) = 1
    /\ \E i \in 1..Len(authorsFile) :
          authorsFile[i][Len(authorsFile[i])] = TAB

\* the shorthand and the full name of a well-formed affiliations line
KeyOfLine(line) == Split(line, TAB)[1]

FullnameOfLine(line) == Split(line, TAB)[2]

\* the keys of the lines of the affiliations file, line by line
LineKeys == [i \in 1..Len(affiliationsFile) |-> KeyOfLine(affiliationsFile[i])]

\* the full name on the last of the lines whose key is s, keys being LineKeys
LastFullname(keys, s) ==
    LET last == CHOOSE i \in 1..Len(keys) :
                    keys[i] = s /\ \A j \in (i + 1)..Len(keys) : keys[j] # s
    IN  FullnameOfLine(affiliationsFile[last])

\* C9: a shorthand that is the key of several lines of the affiliations
\* file does not make read_affiliations fail; the table has one entry for
\* it, with the full name of the last such line, which is the full name
\* the footer prints.  Stated of the table when read_affiliations has
\* returned, of the footer when it has been built and of the primary
\* output when the run is done.
C9_LastFullnameWins ==
    LET keys == LineKeys
        LastName(s) == LastFullname(keys, s)
    IN  /\ AffiliationsAttempted => error.kind # "ValueError"
        /\ pc = "verify" =>
              /\ Range(DictKeys(affiliations)) = Range(keys)
              /\ Len(affiliations) = Cardinality(Range(keys))
              /\ \A i \in 1..Len(affiliations) :
                    affiliations[i][2] = LastName(affiliations[i][1])
        /\ pc = "write_html" =>
              /\ affiliations_html = FooterHtml(LastName)
              /\ affiliations_latex = FooterLatex(LastName)
        /\ pc = "done" =>
              LET footer == FooterHtml(LastName)
              IN  EndOf(files.out_html.content, footer, 0) = footer

\* a finished run whose affiliations file gives one shorthand two
\* different full names
C9_Witness ==
    /\ pc = "done"
    /\ Len(affiliationsFile) = 2
    /\ KeyOfLine(affiliationsFile[1]) = KeyOfLine(affiliationsFile[2])
    /\ FullnameOfLine(affiliationsFile[1]) # FullnameOfLine(affiliationsFile[2])

\* the name and the shorthand list of a well-formed authors line
NameOfLine(line) == Split(line, TAB)[1]

ListOfLine(line) == Split(Split(line, TAB)[2], COMMA)

\* the names of the lines of the authors file, line by line
LineNames == [i \in 1..Len(authorsFile) |-> NameOfLine(authorsFile[i])]

\* the first and the last of the lines named name, names being LineNames
FirstLineOf(names, name) ==
    CHOOSE i \in 1..Len(names) :
        names[i] = name /\ \A j \in 1..(i - 1) : names[j] # name

LastLineOf(names, name) ==
    CHOOSE i \in 1..Len(names) :
        names[i] = name /\ \A j \in (i + 1)..Len(names) : names[j] # name

\* C10: the author collection has one entry for each distinct name of the
\* authors file, at the place of the first line of that name and with the
\* shorthand list of its last line; the author is in the author block
\* once, and only the shorthands of these lists are verified and
\* numbered.  Stated of the collection when read_authors has returned, of
\* the error when the verification has failed, of the numbering when it
\* has been built and of the author block when it has been built.
C10_DuplicateAuthorLines ==
    LET names == LineNames
        first == [i \in 1..Len(authors) |-> FirstLineOf(names, authors[i][1])]
        last == [i \in 1..Len(authors) |-> LastLineOf(names, authors[i][1])]
    IN  /\ pc = "read_affiliations" =>
              /\ Range(DictKeys(authors)) = Range(names)
              /\ \A i \in 1..(Len(authors) - 1) : first[i] < first[i + 1]
              /\ \A i \in 1..Len(authors) :
                    authors[i][2] = ListOfLine(authorsFile[last[i]])
        /\ error.kind = "Exception" =>
              \E i \in 1..Len(authors) :
                  /\ error.author = authors[i][1]
                  /\ error.affiliation \in Range(ListOfLine(authorsFile[last[i]]))
        /\ pc = "order" =>
              Range(DictKeys(affiliations_number))
                  = UNION {Range(ListOfLine(authorsFile[last[i]])) :
                              i \in 1..Len(authors)}
        /\ pc = "render_affiliations" =>
              Cardinality({i \in 1..Len(author_html) : author_html[i] = "<"})
                  = 2 * Len(authors)

\* a name is on the first and the third line with different lists, and
\* the shorthand of its first line, a key of the table, has no number
C10_Witness ==
    /\ pc = "failed"
    /\ error.kind = "KeyError"
    /\ Len(authorsFile) = 3
    /\ Len(authors) = 2
    /\ NameOfLine(authorsFile[1]) = NameOfLine(authorsFile[3])
    /\ error.key \in Range(ListOfLine(authorsFile[1]))
    /\ error.key \notin Range(ListOfLine(authorsFile[3]))

====
